---- MODULE Spec2Model ----
(***************************************************************************)
(* A model of cirq.google.XmonDevice (src/cirq/google/xmon_device.py) and  *)
(* of cirq.contrib.acquaintance.devices (get_acquaintance_size).           *)
(*                                                                         *)
(* Every method of the device is a pure function of the immutable device   *)
(* and of its arguments, so each method is an operator, and the actions of  *)
(* the specifications below are calls of the methods by a caller: the      *)
(* arguments are drawn from bounded sets, the value returned (or the error  *)
(* raised) is recorded in `result`.  All the errors of the source are       *)
(* Python ValueErrors (TypeError for the acquaintance functions); they are  *)
(* told apart by their message, which is what the strings below name.       *)
(***************************************************************************)
EXTENDS Integers, Sequences, FiniteSets

VARIABLES
    qubits,     \* XmonDevice.qubits: the frozenset of GridQubits of the device
    call,       \* the method the caller invoked last ("none" before any call)
    arg,        \* the argument of that call the caller passed beside `moment`
    moment,     \* the caller's container: a Moment, a Circuit or a Schedule
    result,     \* what the call returned, or the error it raised
    prev        \* the argument and the result of the call before an edit

vars == <<qubits, call, arg, moment, result, prev>>

-----------------------------------------------------------------------------
(* Bounds of the model.                                                     *)

MaxRow == 2         \* grid rows are 0..MaxRow
MaxCol == 2         \* grid columns are 0..MaxCol
MaxHoles == 2       \* a device is the grid less at most MaxHoles qubits
MaxOps == 2         \* a moment holds at most MaxOps operations
MaxMoments == 2     \* a circuit holds at most MaxMoments moments
MaxSched == 2       \* a schedule holds at most MaxSched scheduled operations
MaxTime == 1        \* scheduled operations start at 0..MaxTime
MaxDuration == 2    \* and last 1..MaxDuration
MaxQubits == 3      \* an acquaintance operation has 1..MaxQubits qubits
MaxPartLen == 2     \* the parts of a swap network have 1..MaxPartLen qubits
MaxParts == 3       \* a swap network has 2..MaxParts parts
MaxCircuitOps == 3  \* an acquaintance circuit holds at most MaxCircuitOps operations

-----------------------------------------------------------------------------
(* Qubits.  A GridQubit is its (row, col); any other qubit type (a          *)
(* NamedQubit, a LineQubit) is a qubit that is no GridQubit.                *)

GridQubit(r, c) == [grid |-> TRUE, row |-> r, col |-> c]

NamedQubit == [grid |-> FALSE, row |-> 0, col |-> 0]

Grid == {GridQubit(r, c) : r \in 0..MaxRow, c \in 0..MaxCol}

Abs(x) == IF x < 0 THEN -x ELSE x

\* GridQubit.is_adjacent
is_adjacent(p, q) ==
    /\ q.grid
    /\ Abs(p.row - q.row) + Abs(p.col - q.col) = 1

\* The values of a sequence.
Range(s) == {s[i] : i \in 1..Len(s)}

-----------------------------------------------------------------------------
(* Gates and operations.  An operation is its gate's type and its qubits;  *)
(* an Operation that is no GateOperation has the gate "NoGate".             *)

XmonGates == {"CZPowGate", "XPowGate", "YPowGate", "PhasedXPowGate",
              "MeasurementGate", "ZPowGate"}

\* The gates _check_if_exp11_operation_interacts never lets interact.
NonInteractingGates == {"XPowGate", "YPowGate", "PhasedXPowGate",
                        "MeasurementGate", "ZPowGate"}

\* A gate type the device does not know.
OtherGates == {"ISwapPowGate"}

GateTypes == XmonGates \cup OtherGates

Op(g, qs, k) == [gate |-> g, qubits |-> qs, key |-> k]

isGateOperation(o) == o.gate # "NoGate"

\* ops.op_gate_of_type(op, gate_type)
op_gate_of_type(o, g) == isGateOperation(o) /\ o.gate = g

-----------------------------------------------------------------------------
(* XmonDevice.                                                              *)

\* neighbors_of with the last of `possibles` one row down.
neighbors_of_diagonal(dev, q) ==
    LET possibles == << GridQubit(q.row + 1, q.col),
                        GridQubit(q.row - 1, q.col),
                        GridQubit(q.row, q.col + 1),
                        GridQubit(q.row + 1, q.col - 1) >>
    IN  SelectSeq(possibles, LAMBDA e : e \in dev)

\* XmonDevice.neighbors_of: the list comprehension over `possibles`.
neighbors_of(dev, q) ==
    LET possibles == << GridQubit(q.row + 1, q.col),
                        GridQubit(q.row - 1, q.col),
                        GridQubit(q.row, q.col + 1),
                        GridQubit(q.row, q.col - 1) >>
    IN  SelectSeq(possibles, LAMBDA e : e \in dev)

\* XmonDevice.validate_gate
validate_gate(g) ==
    IF g \notin XmonGates THEN "Unsupported gate type" ELSE "OK"

\* The loop of validate_operation over operation.qubits, stopping after the
\* first qubit.
validate_qubits_first_only(dev, qs, i) ==
    IF i > Len(qs) THEN "OK"
    ELSE IF ~qs[i].grid THEN "Unsupported qubit type"
    ELSE IF qs[i] \notin dev THEN "Qubit not on device"
    ELSE "OK"

\* The loop of validate_operation over operation.qubits, from index i on.
RECURSIVE validate_qubits(_, _, _)
validate_qubits(dev, qs, i) ==
    IF i > Len(qs) THEN "OK"
    ELSE IF ~qs[i].grid THEN "Unsupported qubit type"
    ELSE IF qs[i] \notin dev THEN "Qubit not on device"
    ELSE validate_qubits(dev, qs, i + 1)

\* validate_operation with the adjacency required of measurements too.
validate_operation_measurement_local(dev, o) ==
    IF ~isGateOperation(o) THEN "Unsupported operation"
    ELSE IF validate_gate(o.gate) # "OK" THEN validate_gate(o.gate)
    ELSE IF validate_qubits(dev, o.qubits, 1) # "OK"
         THEN validate_qubits(dev, o.qubits, 1)
    ELSE IF /\ Len(o.qubits) = 2
            /\ ~is_adjacent(o.qubits[1], o.qubits[2])
         THEN "Non-local interaction"
    ELSE "OK"

\* XmonDevice.validate_operation
validate_operation(dev, o) ==
    IF ~isGateOperation(o) THEN "Unsupported operation"
    ELSE IF validate_gate(o.gate) # "OK" THEN validate_gate(o.gate)
    ELSE IF validate_qubits(dev, o.qubits, 1) # "OK"
         THEN validate_qubits(dev, o.qubits, 1)
    ELSE IF /\ Len(o.qubits) = 2
            /\ o.gate # "MeasurementGate"
            /\ ~is_adjacent(o.qubits[1], o.qubits[2])
         THEN "Non-local interaction"
    ELSE "OK"

\* Device.validate_moment, the base class's: every operation of the moment is
\* validated, in the moment's order, from index i on.
RECURSIVE Device_validate_moment(_, _, _)
Device_validate_moment(dev, m, i) ==
    IF i > Len(m) THEN "OK"
    ELSE IF validate_operation(dev, m[i]) # "OK" THEN validate_operation(dev, m[i])
    ELSE Device_validate_moment(dev, m, i + 1)

\* _check_if_exp11_operation_interacts comparing each qubit of exp11_op with
\* the qubit of other_op at the same place only (zip for the product).
check_if_exp11_operation_interacts_zipped(exp11_op, other_op) ==
    IF other_op.gate \in NonInteractingGates THEN FALSE
    ELSE \E i \in 1..Len(exp11_op.qubits) :
            /\ i <= Len(other_op.qubits)
            /\ is_adjacent(exp11_op.qubits[i], other_op.qubits[i])

\* XmonDevice._check_if_exp11_operation_interacts
check_if_exp11_operation_interacts(exp11_op, other_op) ==
    IF other_op.gate \in NonInteractingGates THEN FALSE
    ELSE \E i \in 1..Len(exp11_op.qubits), j \in 1..Len(other_op.qubits) :
            is_adjacent(exp11_op.qubits[i], other_op.qubits[j])

\* XmonDevice._check_if_exp11_operation_interacts_with_any
check_if_exp11_operation_interacts_with_any(exp11_op, others) ==
    \E j \in 1..Len(others) :
        check_if_exp11_operation_interacts(exp11_op, others[j])

\* XmonDevice.validate_moment: `other is not op` is a comparison of the places
\* of the moment, i # j.
validate_moment(dev, m) ==
    IF Device_validate_moment(dev, m, 1) # "OK"
    THEN Device_validate_moment(dev, m, 1)
    ELSE IF \E i, j \in 1..Len(m) :
                /\ op_gate_of_type(m[i], "CZPowGate")
                /\ j # i
                /\ check_if_exp11_operation_interacts(m[i], m[j])
         THEN "Adjacent Exp11 operations"
    ELSE "OK"

\* Moment.operates_on(qubits)
operates_on(m, qs) ==
    \E j \in 1..Len(m) : Range(m[j].qubits) \cap Range(qs) # {}

\* Device.can_add_operation_into_moment, the base class's.
Device_can_add_operation_into_moment(o, m) == ~operates_on(m, o.qubits)

Bool(b) == IF b THEN "True" ELSE "False"

\* can_add_operation_into_moment returning False for a moment that does not
\* validate.
can_add_operation_into_moment_caught(dev, o, m) ==
    IF validate_moment(dev, m) # "OK" THEN Bool(FALSE)
    ELSE IF ~Device_can_add_operation_into_moment(o, m) THEN Bool(FALSE)
    ELSE IF op_gate_of_type(o, "CZPowGate")
         THEN Bool(~check_if_exp11_operation_interacts_with_any(o, m))
    ELSE Bool(TRUE)

\* can_add_operation_into_moment without the call of the base class.
can_add_operation_into_moment_no_super(dev, o, m) ==
    IF validate_moment(dev, m) # "OK" THEN validate_moment(dev, m)
    ELSE IF op_gate_of_type(o, "CZPowGate")
         THEN Bool(~check_if_exp11_operation_interacts_with_any(o, m))
    ELSE Bool(TRUE)

\* XmonDevice.can_add_operation_into_moment: the value returned, or the error
\* validate_moment raised.
can_add_operation_into_moment(dev, o, m) ==
    IF validate_moment(dev, m) # "OK" THEN validate_moment(dev, m)
    ELSE IF ~Device_can_add_operation_into_moment(o, m) THEN Bool(FALSE)
    ELSE IF op_gate_of_type(o, "CZPowGate")
         THEN Bool(~check_if_exp11_operation_interacts_with_any(o, m))
    ELSE Bool(TRUE)

-----------------------------------------------------------------------------
(* Schedules.  A Schedule keeps its ScheduledOperations sorted by start     *)
(* time; a ScheduledOperation is an operation, its start time and its       *)
(* duration.                                                                *)

ScheduledOperation(o, t, d) == [operation |-> o, time |-> t, duration |-> d]

\* Two scheduled operations are active at a common instant.
Overlaps(a, b) ==
    a.time < b.time + b.duration /\ b.time < a.time + a.duration

\* Schedule.operations_happening_at_same_time_as, as positions of the schedule.
operations_happening_at_same_time_as(schedule, scheduled_operation) ==
    {j \in 1..Len(schedule) :
        /\ schedule[j] # scheduled_operation
        /\ Overlaps(schedule[j], scheduled_operation)}

\* XmonDevice.validate_scheduled_operation, checking against every scheduled
\* operation of the schedule but itself.
validate_scheduled_operation_any_time(dev, schedule, scheduled_operation) ==
    IF validate_operation(dev, scheduled_operation.operation) # "OK"
    THEN validate_operation(dev, scheduled_operation.operation)
    ELSE IF /\ scheduled_operation.operation.gate = "CZPowGate"
            /\ \E j \in 1..Len(schedule) :
                   /\ schedule[j] # scheduled_operation
                   /\ check_if_exp11_operation_interacts(
                          scheduled_operation.operation, schedule[j].operation)
         THEN "Adjacent Exp11 operations"
    ELSE "OK"

\* XmonDevice.validate_scheduled_operation
validate_scheduled_operation(dev, schedule, scheduled_operation) ==
    IF validate_operation(dev, scheduled_operation.operation) # "OK"
    THEN validate_operation(dev, scheduled_operation.operation)
    ELSE IF /\ scheduled_operation.operation.gate = "CZPowGate"
            /\ \E j \in operations_happening_at_same_time_as(
                            schedule, scheduled_operation) :
                   check_if_exp11_operation_interacts(
                       scheduled_operation.operation, schedule[j].operation)
         THEN "Adjacent Exp11 operations"
    ELSE "OK"

-----------------------------------------------------------------------------
(* Measurement keys, and the validation of whole circuits and schedules.    *)
(* Their results are records: the error's message ("OK" for none) and, for  *)
(* a repeated measurement key, the key the message names.                   *)

Outcome(msg) == [error |-> msg, key |-> ""]

KeyRepeated(k) == [error |-> "Measurement key repeated", key |-> k]

\* protocols.is_measurement
is_measurement(o) == o.gate = "MeasurementGate"

\* protocols.measurement_key
measurement_key(o) == o.key

\* The loop of _verify_unique_measurement_keys, from index i on.
RECURSIVE verify_keys_from(_, _, _)
verify_keys_from(operations, i, seen) ==
    IF i > Len(operations) THEN Outcome("OK")
    ELSE IF is_measurement(operations[i])
         THEN IF measurement_key(operations[i]) \in seen
              THEN KeyRepeated(measurement_key(operations[i]))
              ELSE verify_keys_from(operations, i + 1,
                                    seen \cup {measurement_key(operations[i])})
    ELSE verify_keys_from(operations, i + 1, seen)

\* The same loop with `seen` holding the last key only.
RECURSIVE verify_keys_last_from(_, _, _)
verify_keys_last_from(operations, i, seen) ==
    IF i > Len(operations) THEN Outcome("OK")
    ELSE IF is_measurement(operations[i])
         THEN IF measurement_key(operations[i]) \in seen
              THEN KeyRepeated(measurement_key(operations[i]))
              ELSE verify_keys_last_from(operations, i + 1,
                                         {measurement_key(operations[i])})
    ELSE verify_keys_last_from(operations, i + 1, seen)

verify_unique_measurement_keys_last(operations) ==
    verify_keys_last_from(operations, 1, {})

\* _verify_unique_measurement_keys
verify_unique_measurement_keys(operations) ==
    verify_keys_from(operations, 1, {})

\* Circuit.all_operations: the operations of the moments, in order.
RECURSIVE all_operations(_)
all_operations(circuit) ==
    IF circuit = <<>> THEN <<>>
    ELSE Head(circuit) \o all_operations(Tail(circuit))

\* Device.validate_circuit, the base class's: every moment is validated, in
\* order, from index i on.
RECURSIVE Device_validate_circuit(_, _, _)
Device_validate_circuit(dev, circuit, i) ==
    IF i > Len(circuit) THEN "OK"
    ELSE IF validate_moment(dev, circuit[i]) # "OK"
         THEN validate_moment(dev, circuit[i])
    ELSE Device_validate_circuit(dev, circuit, i + 1)

\* XmonDevice.validate_circuit
validate_circuit(dev, circuit) ==
    IF Device_validate_circuit(dev, circuit, 1) # "OK"
    THEN Outcome(Device_validate_circuit(dev, circuit, 1))
    ELSE verify_unique_measurement_keys(all_operations(circuit))

\* The loop of validate_schedule over schedule.scheduled_operations.
RECURSIVE validate_scheduled_from(_, _, _)
validate_scheduled_from(dev, schedule, i) ==
    IF i > Len(schedule) THEN "OK"
    ELSE IF validate_scheduled_operation(dev, schedule, schedule[i]) # "OK"
         THEN validate_scheduled_operation(dev, schedule, schedule[i])
    ELSE validate_scheduled_from(dev, schedule, i + 1)

\* XmonDevice.validate_schedule
validate_schedule(dev, schedule) ==
    LET keys == verify_unique_measurement_keys(
                    [i \in 1..Len(schedule) |-> schedule[i].operation])
    IN  IF keys.error # "OK" THEN keys
        ELSE Outcome(validate_scheduled_from(dev, schedule, 1))

-----------------------------------------------------------------------------
(* The callers' inputs.                                                     *)

\* The devices of the model: the grid less at most n of its qubits.
Devices(n) == {d \in SUBSET Grid : Cardinality(d) >= Cardinality(Grid) - n}

AnyQubits == Grid \cup {NamedQubit}

\* The operand lists of an operation: one or two qubits of any type.
QubitLists == {<<p>> : p \in AnyQubits} \cup {<<p, q>> : p, q \in AnyQubits}

\* Every operation a caller may hand to validate_operation.
Operations == {Op(g, qs, "") : g \in GateTypes \cup {"NoGate"}, qs \in QubitLists}

None == [gate |-> "NoGate", qubits |-> <<>>, key |-> ""]

NoCall == [arg |-> None, result |-> "none"]

-----------------------------------------------------------------------------
(* SpecTopology: neighbors_of on a device.                                  *)

InitTopology ==
    /\ qubits \in Devices(MaxHoles)
    /\ call = "none"
    /\ arg = None
    /\ moment = <<>>
    /\ result = <<>>
    /\ prev = NoCall

NeighborsOf(q) ==
    /\ call = "none"
    /\ call' = "neighbors_of"
    /\ arg' = q
    /\ result' = neighbors_of(qubits, q)
    /\ UNCHANGED <<qubits, moment, prev>>

NextTopology == call = "none" /\ \E q \in Grid : NeighborsOf(q)

SpecTopology == InitTopology /\ [][NextTopology]_vars

-----------------------------------------------------------------------------
(* SpecOperation: validate_operation on one operation, and on the same      *)
(* operation with one operand moved.                                        *)

InitOperation ==
    /\ qubits \in Devices(1)
    /\ call = "none"
    /\ arg = None
    /\ moment = <<>>
    /\ result = "none"
    /\ prev = NoCall

ValidateOperation(o) ==
    /\ call = "none"
    /\ call' = "validate_operation"
    /\ arg' = o
    /\ result' = validate_operation(qubits, o)
    /\ prev' = NoCall
    /\ UNCHANGED <<qubits, moment>>

\* The caller moves operand i of an operation that validated to the GridQubit
\* p and validates again.
MoveOperand(i, p) ==
    /\ call = "validate_operation"
    /\ result = "OK"
    /\ i \in 1..Len(arg.qubits)
    /\ call' = "validate_moved"
    /\ arg' = [arg EXCEPT !.qubits[i] = p]
    /\ result' = validate_operation(qubits, arg')
    /\ prev' = [arg |-> arg, result |-> result]
    /\ UNCHANGED <<qubits, moment>>

NextOperation ==
    \/ call = "none" /\ \E o \in Operations : ValidateOperation(o)
    \/ call = "validate_operation" /\ \E i \in 1..2, p \in Grid : MoveOperand(i, p)

SpecOperation == InitOperation /\ [][NextOperation]_vars

-----------------------------------------------------------------------------
(* SpecMoment: on a device of two rows of three qubits, a caller builds a   *)
(* Moment of operations on disjoint qubits (the Moment constructor checks   *)
(* nothing else), then validates it or asks whether one more operation can  *)
(* be added.                                                                *)

Ladder == {GridQubit(r, c) : r \in {0, 1}, c \in {0, 1, 2}}

\* The operations of the moments: two-qubit interactions on adjacent qubits
\* (either operand first), rotations and measurements on one qubit, and an
\* unknown gate on one qubit.
MomentOps ==
    {o \in {Op("CZPowGate", <<p, q>>, "") : p, q \in Ladder} :
        is_adjacent(o.qubits[1], o.qubits[2])}
    \cup
    {Op(g, <<p>>, "") : g \in {"XPowGate", "MeasurementGate", "ISwapPowGate"},
                        p \in Ladder}

InitMoment ==
    /\ qubits = Ladder
    /\ call = "none"
    /\ arg = None
    /\ moment = <<>>
    /\ result = "none"
    /\ prev = NoCall

\* Moment(moment.operations + (o,)): the constructor raises on shared qubits.
AppendOperation(o) ==
    /\ call = "none"
    /\ Len(moment) < MaxOps
    /\ ~operates_on(moment, o.qubits)
    /\ moment' = Append(moment, o)
    /\ UNCHANGED <<qubits, call, arg, result, prev>>

ValidateMoment ==
    /\ call = "none"
    /\ call' = "validate_moment"
    /\ result' = validate_moment(qubits, moment)
    /\ UNCHANGED <<qubits, arg, moment, prev>>

CanAddOperationIntoMoment(o) ==
    /\ call = "none"
    /\ call' = "can_add_operation_into_moment"
    /\ arg' = o
    /\ result' = can_add_operation_into_moment(qubits, o, moment)
    /\ UNCHANGED <<qubits, moment, prev>>

NextMoment ==
    \/ call = "none" /\ \E o \in MomentOps : AppendOperation(o)
    \/ ValidateMoment
    \/ call = "none" /\ \E o \in MomentOps : CanAddOperationIntoMoment(o)

SpecMoment == InitMoment /\ [][NextMoment]_vars

-----------------------------------------------------------------------------
(* SpecSchedule: on a device of one row of four qubits, a caller includes   *)
(* scheduled operations into a Schedule (Schedule.include refuses an        *)
(* operation that overlaps another on a qubit they share), then validates   *)
(* one of them.                                                             *)

Row == {GridQubit(0, c) : c \in {0, 1, 2, 3}}

SchedOps ==
    {o \in {Op("CZPowGate", <<p, q>>, "") : p, q \in Row} :
        is_adjacent(o.qubits[1], o.qubits[2])}
    \cup
    {Op(g, <<p>>, "") : g \in {"XPowGate", "ISwapPowGate"}, p \in Row}

ScheduledOps(ops) ==
    {ScheduledOperation(o, t, d) : o \in ops, t \in 0..MaxTime, d \in 1..MaxDuration}

\* SortedListWithKey.add: after the scheduled operations that start no later.
InsertByTime(schedule, s) ==
    LET n == Cardinality({j \in 1..Len(schedule) : schedule[j].time <= s.time})
    IN  SubSeq(schedule, 1, n) \o <<s>> \o SubSeq(schedule, n + 1, Len(schedule))

\* Schedule.include raises when s collides with a scheduled operation.
Collides(schedule, s) ==
    \E j \in 1..Len(schedule) :
        /\ Overlaps(schedule[j], s)
        /\ Range(schedule[j].operation.qubits) \cap Range(s.operation.qubits) # {}

InitSchedule ==
    /\ qubits = Row
    /\ call = "none"
    /\ arg = ScheduledOperation(None, 0, 0)
    /\ moment = <<>>
    /\ result = "none"
    /\ prev = NoCall

Include(s) ==
    /\ call = "none"
    /\ Len(moment) < MaxSched
    /\ ~Collides(moment, s)
    /\ moment' = InsertByTime(moment, s)
    /\ UNCHANGED <<qubits, call, arg, result, prev>>

ValidateScheduledOperation(i) ==
    /\ call = "none"
    /\ i \in 1..Len(moment)
    /\ call' = "validate_scheduled_operation"
    /\ arg' = moment[i]
    /\ result' = validate_scheduled_operation(qubits, moment, moment[i])
    /\ UNCHANGED <<qubits, moment, prev>>

NextSchedule ==
    \/ call = "none" /\ \E s \in ScheduledOps(SchedOps) : Include(s)
    \/ call = "none" /\ \E i \in 1..MaxSched : ValidateScheduledOperation(i)

SpecSchedule == InitSchedule /\ [][NextSchedule]_vars

-----------------------------------------------------------------------------
(* SpecKeys: a caller builds a circuit, moment by moment, or a schedule, of *)
(* measurements, rotations and unknown gates on two qubits, validates it,   *)
(* and after a repeated measurement key changes one key and validates again.*)

Keys == {"a", "b", "c"}

KeyOpsOn(q) ==
    {Op("MeasurementGate", <<q>>, k) : k \in Keys} \cup
    {Op("XPowGate", <<q>>, ""), Op("ISwapPowGate", <<q>>, "")}

KeyOps == KeyOpsOn(GridQubit(0, 0)) \cup KeyOpsOn(GridQubit(0, 1))

\* The moments of the circuits: one operation, or one on each qubit.
KeyMoments ==
    {<<o>> : o \in KeyOps} \cup
    {<<a, b>> : a \in KeyOpsOn(GridQubit(0, 0)), b \in KeyOpsOn(GridQubit(0, 1))}

NoEdit == [arg |-> <<>>, result |-> Outcome("none"), at |-> <<>>]

InitKeys ==
    /\ qubits = Row
    /\ call = "none"
    /\ arg \in {"circuit", "schedule"}
    /\ moment = <<>>
    /\ result = Outcome("none")
    /\ prev = NoEdit

AppendMoment(m) ==
    /\ call = "none"
    /\ arg = "circuit"
    /\ Len(moment) < MaxMoments
    /\ moment' = Append(moment, m)
    /\ UNCHANGED <<qubits, call, arg, result, prev>>

IncludeMeasured(s) ==
    /\ call = "none"
    /\ arg = "schedule"
    /\ Len(moment) < MaxSched
    /\ ~Collides(moment, s)
    /\ moment' = InsertByTime(moment, s)
    /\ UNCHANGED <<qubits, call, arg, result, prev>>

ValidateCircuit ==
    /\ call = "none"
    /\ arg = "circuit"
    /\ call' = "validate_circuit"
    /\ result' = validate_circuit(qubits, moment)
    /\ UNCHANGED <<qubits, arg, moment, prev>>

ValidateSchedule ==
    /\ call = "none"
    /\ arg = "schedule"
    /\ call' = "validate_schedule"
    /\ result' = validate_schedule(qubits, moment)
    /\ UNCHANGED <<qubits, arg, moment, prev>>

\* The caller gives the measurement at place j of moment i the key k.
ChangeCircuitKey(i, j, k) ==
    /\ call = "validate_circuit"
    /\ result.error = "Measurement key repeated"
    /\ i \in 1..Len(moment)
    /\ j \in 1..Len(moment[i])
    /\ is_measurement(moment[i][j])
    /\ k # moment[i][j].key
    /\ call' = "validate_circuit_changed"
    /\ moment' = [moment EXCEPT ![i][j].key = k]
    /\ result' = validate_circuit(qubits, moment')
    /\ prev' = [arg |-> moment, result |-> result, at |-> <<i, j>>]
    /\ UNCHANGED <<qubits, arg>>

\* The caller gives the scheduled measurement at place i the key k.
ChangeScheduleKey(i, k) ==
    /\ call = "validate_schedule"
    /\ result.error = "Measurement key repeated"
    /\ i \in 1..Len(moment)
    /\ is_measurement(moment[i].operation)
    /\ k # moment[i].operation.key
    /\ call' = "validate_schedule_changed"
    /\ moment' = [moment EXCEPT ![i].operation.key = k]
    /\ result' = validate_schedule(qubits, moment')
    /\ prev' = [arg |-> moment, result |-> result, at |-> <<i>>]
    /\ UNCHANGED <<qubits, arg>>

NextKeys ==
    \/ call = "none" /\ \E m \in KeyMoments : AppendMoment(m)
    \/ call = "none" /\ \E s \in ScheduledOps(KeyOps) : IncludeMeasured(s)
    \/ ValidateCircuit
    \/ ValidateSchedule
    \/ call = "validate_circuit" /\
          \E i \in 1..MaxMoments, j \in 1..2, k \in Keys : ChangeCircuitKey(i, j, k)
    \/ call = "validate_schedule" /\
          \E i \in 1..MaxSched, k \in Keys : ChangeScheduleKey(i, k)

SpecKeys == InitKeys /\ [][NextKeys]_vars

-----------------------------------------------------------------------------
(* cirq.contrib.acquaintance.devices.  An object handed to                  *)
(* get_acquaintance_size is a Circuit, an Operation or something else; of   *)
(* an operation the function reads the gate's type, len(obj.qubits), and    *)
(* of the gate: ShiftSwapNetworkGate.acquaintance_size() (`declared`),      *)
(* SwapNetworkGate.part_lens and .acquaintance_size (`target`, None when    *)
(* `has_target` is FALSE), and the optional _acquaintance_size_ method      *)
(* (`sizer`, "None" when the gate has none).                                *)

AcquaintanceGates == {"AcquaintanceOpportunityGate", "BipartiteSwapNetworkGate",
                      "ShiftSwapNetworkGate", "SwapNetworkGate", "Gate"}

AcqOp(type, g, n, d, pl, ht, t, sz) ==
    [type |-> type, gate |-> g, n_qubits |-> n, declared |-> d, part_lens |-> pl,
     has_target |-> ht, target |-> t, sizer |-> sz]

\* The _acquaintance_size_ methods of the model's gates: one returns the number
\* of qubits it is given, one returns 1.
Sizers == {"None", "count", "one"}

CallSizer(sz, n) == IF sz = "count" THEN n ELSE 1

Value(n) == [error |-> "none", value |-> n]

TypeError(msg) == [error |-> msg, value |-> 0]

\* sorted(xs), by insertion.
RECURSIVE InsertSorted(_, _)
InsertSorted(xs, x) ==
    IF xs = <<>> THEN <<x>>
    ELSE IF x <= Head(xs) THEN <<x>> \o xs
    ELSE <<Head(xs)>> \o InsertSorted(Tail(xs), x)

RECURSIVE sorted(_)
sorted(xs) ==
    IF xs = <<>> THEN <<>> ELSE InsertSorted(sorted(Tail(xs)), Head(xs))

RECURSIVE sum(_)
sum(xs) == IF xs = <<>> THEN 0 ELSE Head(xs) + sum(Tail(xs))

\* xs[-2:]
LastTwo(xs) == SubSeq(xs, IF Len(xs) > 2 THEN Len(xs) - 1 ELSE 1, Len(xs))

\* max(xs or (0,))
RECURSIVE max_or_zero(_)
max_or_zero(xs) ==
    IF xs = <<>> THEN 0
    ELSE IF Len(xs) = 1 THEN xs[1]
    ELSE IF Head(xs) >= max_or_zero(Tail(xs)) THEN Head(xs)
    ELSE max_or_zero(Tail(xs))

\* get_acquaintance_size of an operation, with the target of a swap network
\* looked up among the part lengths as it is.
operation_acquaintance_size_target_in_parts(obj) ==
    IF obj.type # "GateOperation" THEN 0
    ELSE IF obj.gate = "AcquaintanceOpportunityGate" THEN obj.n_qubits
    ELSE IF obj.gate = "BipartiteSwapNetworkGate" THEN 2
    ELSE IF obj.gate = "ShiftSwapNetworkGate" THEN obj.declared
    ELSE IF obj.gate = "SwapNetworkGate" /\ ~obj.has_target
         THEN sum(LastTwo(sorted(obj.part_lens)))
    ELSE IF /\ obj.gate = "SwapNetworkGate"
            /\ obj.target \in Range(obj.part_lens)
         THEN obj.target
    ELSE IF obj.sizer = "None" THEN 0
    ELSE CallSizer(obj.sizer, obj.n_qubits)

\* get_acquaintance_size, from `if not isinstance(obj, ops.GateOperation)` on.
operation_acquaintance_size(obj) ==
    IF obj.type # "GateOperation" THEN 0
    ELSE IF obj.gate = "AcquaintanceOpportunityGate" THEN obj.n_qubits
    ELSE IF obj.gate = "BipartiteSwapNetworkGate" THEN 2
    ELSE IF obj.gate = "ShiftSwapNetworkGate" THEN obj.declared
    ELSE IF obj.gate = "SwapNetworkGate" /\ ~obj.has_target
         THEN sum(LastTwo(sorted(obj.part_lens)))
    ELSE IF /\ obj.gate = "SwapNetworkGate"
            /\ (obj.target - 1) \in Range(obj.part_lens)
         THEN obj.target
    ELSE IF obj.sizer = "None" THEN 0
    ELSE CallSizer(obj.sizer, obj.n_qubits)

\* is_acquaintance_strategy
is_acquaintance_strategy(circuit) == circuit.device = "AcquaintanceDevice"

\* get_acquaintance_size of a circuit, without the check of its device.
circuit_acquaintance_size_any_device(circuit) ==
    Value(max_or_zero([i \in 1..Len(circuit.ops) |->
                          operation_acquaintance_size(circuit.ops[i])]))

\* get_acquaintance_size, the branch of a Circuit.
circuit_acquaintance_size(circuit) ==
    IF ~is_acquaintance_strategy(circuit)
    THEN TypeError("not is_acquaintance_strategy(circuit)")
    ELSE Value(max_or_zero([i \in 1..Len(circuit.ops) |->
                               operation_acquaintance_size(circuit.ops[i])]))

\* get_acquaintance_size
get_acquaintance_size(obj) ==
    IF obj.type = "Circuit" THEN circuit_acquaintance_size(obj)
    ELSE IF obj.type \notin {"Operation", "GateOperation"}
         THEN TypeError("not isinstance(obj, (Circuit, Operation))")
    ELSE Value(operation_acquaintance_size(obj))

-----------------------------------------------------------------------------
(* SpecAcquaintance: a caller asks the acquaintance size of an operation,   *)
(* of some other object, or of a circuit it built on a device.              *)

PartLens ==
    UNION {[1..n -> 1..MaxPartLen] : n \in 2..MaxParts}

\* A gate operation that reads nothing of the gate but its type and its sizer.
PlainOp(g, n, sz) == AcqOp("GateOperation", g, n, 0, <<>>, FALSE, 0, sz)

AcquaintanceObjects ==
    {PlainOp(g, n, sz) :
        g \in {"AcquaintanceOpportunityGate", "BipartiteSwapNetworkGate", "Gate"},
        n \in 1..MaxQubits, sz \in Sizers}
    \cup
    {AcqOp("GateOperation", "ShiftSwapNetworkGate", n, d, <<>>, FALSE, 0, sz) :
        n \in {2}, d \in 0..MaxQubits, sz \in Sizers}
    \cup
    {AcqOp("GateOperation", "SwapNetworkGate", sum(pl), 0, pl, FALSE, 0, sz) :
        pl \in PartLens, sz \in Sizers}
    \cup
    {AcqOp("GateOperation", "SwapNetworkGate", sum(pl), 0, pl, TRUE, t, sz) :
        pl \in PartLens, t \in 0..(MaxPartLen + 2), sz \in Sizers}
    \cup
    {AcqOp(ty, "NoGate", n, 0, <<>>, FALSE, 0, "None") :
        ty \in {"Operation", "object"}, n \in 1..MaxQubits}

\* The operations of the circuits: gates without a sizer, swap networks of two
\* parts.
CircuitOps ==
    {o \in AcquaintanceObjects :
        /\ o.type = "GateOperation"
        /\ o.sizer = "None"
        /\ o.gate # "Gate"
        /\ o.gate = "BipartiteSwapNetworkGate" => o.n_qubits = 2
        /\ o.gate = "SwapNetworkGate" => (Len(o.part_lens) = 2 /\ ~o.has_target)}

Circuit(dev, os) == [type |-> "Circuit", device |-> dev, ops |-> os]

InitAcquaintance ==
    /\ qubits = {}
    /\ call = "none"
    /\ arg = PlainOp("Gate", 1, "None")
    /\ moment \in {Circuit(d, <<>>) : d \in {"AcquaintanceDevice", "XmonDevice"}}
    /\ result = Value(0)
    /\ prev = NoCall

AppendToCircuit(o) ==
    /\ call = "none"
    /\ Len(moment.ops) < MaxCircuitOps
    /\ moment' = [moment EXCEPT !.ops = Append(@, o)]
    /\ UNCHANGED <<qubits, call, arg, result, prev>>

SizeOfObject(obj) ==
    /\ call = "none"
    /\ moment.ops = <<>>
    /\ call' = "get_acquaintance_size(object)"
    /\ arg' = obj
    /\ result' = get_acquaintance_size(obj)
    /\ UNCHANGED <<qubits, moment, prev>>

SizeOfCircuit ==
    /\ call = "none"
    /\ call' = "get_acquaintance_size(circuit)"
    /\ result' = get_acquaintance_size(moment)
    /\ UNCHANGED <<qubits, arg, moment, prev>>

NextAcquaintance ==
    \/ call = "none" /\ \E o \in CircuitOps : AppendToCircuit(o)
    \/ /\ call = "none"
       /\ moment.ops = <<>>
       /\ \E obj \in AcquaintanceObjects : SizeOfObject(obj)
    \/ SizeOfCircuit

SpecAcquaintance == InitAcquaintance /\ [][NextAcquaintance]_vars

-----------------------------------------------------------------------------
(* Properties of neighbors_of, checked under SpecTopology.                  *)

\* p and q differ by one step in one cardinal direction.
OneStep(p, q) ==
    \/ p.row = q.row /\ (q.col = p.col + 1 \/ q.col = p.col - 1)
    \/ p.col = q.col /\ (q.row = p.row + 1 \/ q.row = p.row - 1)

\* p and q are diagonal neighbours.
Diagonal(p, q) ==
    /\ (q.row = p.row + 1 \/ q.row = p.row - 1)
    /\ (q.col = p.col + 1 \/ q.col = p.col - 1)

\* C8: neighbors_of(p) holds exactly the qubits of the device one cardinal step
\* from p: never p, never a diagonal qubit, never a qubit off the device, at
\* most 4 qubits, and q is a neighbour of p iff p is a neighbour of q.
C8_NeighborsAreCardinal ==
    call = "neighbors_of" =>
        /\ Range(result) = {q \in qubits : OneStep(arg, q)}
        /\ arg \notin Range(result)
        /\ \A q \in Range(result) : q \in qubits /\ ~Diagonal(arg, q)
        /\ Len(result) <= 4
        /\ Cardinality(Range(result)) = Len(result)
        /\ arg \in qubits =>
              \A q \in qubits :
                  q \in Range(result) <=> arg \in Range(neighbors_of(qubits, q))

\* A qubit of the device with its four neighbours, and a diagonal qubit on the
\* device that is not among them.
C8_Witness ==
    /\ call = "neighbors_of"
    /\ arg \in qubits
    /\ Len(result) = 4
    /\ \E q \in qubits : Diagonal(arg, q)

-----------------------------------------------------------------------------
(* Properties of validate_operation, checked under SpecOperation.           *)

\* The spec's QubitNotOnDeviceError: an operand off the device, or an operand
\* that is no Position (GridQubit) at all.
QubitNotOnDeviceError == {"Qubit not on device", "Unsupported qubit type"}

HasOffDeviceGridQubit(o) ==
    \E i \in 1..Len(o.qubits) : o.qubits[i].grid /\ o.qubits[i] \notin qubits

Validated == call \in {"validate_operation", "validate_moved"}

\* C3 as claimed: a gate operation with an operand Position off the device fails
\* with the qubit-not-on-device error, whatever its gate.
C3_AnyGate ==
    (Validated /\ isGateOperation(arg) /\ HasOffDeviceGridQubit(arg))
        => result \in QubitNotOnDeviceError

\* C3, amended: a gate operation with an operand Position off the device fails
\* with the qubit-not-on-device error when its gate is one of the device's
\* gates ("Qubit not on device" when all its operands are GridQubits), and with
\* the unsupported-gate error when it is not.
C3_AllowedGate ==
    (Validated /\ isGateOperation(arg) /\ HasOffDeviceGridQubit(arg)) =>
        /\ arg.gate \in XmonGates => result \in QubitNotOnDeviceError
        /\ (arg.gate \in XmonGates /\ \A q \in Range(arg.qubits) : q.grid)
              => result = "Qubit not on device"
        /\ arg.gate \notin XmonGates => result = "Unsupported gate type"

\* An allowed gate on two GridQubits, the first on the device, the second off.
C3_Witness ==
    /\ call = "validate_operation"
    /\ arg.gate = "CZPowGate"
    /\ Len(arg.qubits) = 2
    /\ arg.qubits[1] \in qubits
    /\ arg.qubits[2].grid /\ arg.qubits[2] \notin qubits
    /\ result = "Qubit not on device"

\* Two operands on the device, adjacent on the grid.
AdjacentOnDevice(o) ==
    /\ Len(o.qubits) = 2
    /\ \A q \in Range(o.qubits) : q.grid /\ q \in qubits
    /\ OneStep(o.qubits[1], o.qubits[2])

\* Two operands on the device, not adjacent on the grid.
ApartOnDevice(o) ==
    /\ Len(o.qubits) = 2
    /\ \A q \in Range(o.qubits) : q.grid /\ q \in qubits
    /\ ~OneStep(o.qubits[1], o.qubits[2])

\* C4 as claimed: an allowed gate on two adjacent qubits of the device
\* validates, and with either operand moved to a qubit of the device not
\* adjacent to the other it fails with the non-local-interaction error.
C4_AnyAllowedGate ==
    /\ (Validated /\ arg.gate \in XmonGates /\ AdjacentOnDevice(arg))
          => result = "OK"
    /\ (/\ call = "validate_moved"
        /\ prev.arg.gate \in XmonGates
        /\ AdjacentOnDevice(prev.arg)
        /\ ApartOnDevice(arg))
          => result = "Non-local interaction"

\* C4, amended: the same, for every allowed gate but the measurement; a
\* measurement on two qubits of the device validates wherever they are.
C4_NotMeasurement ==
    /\ (Validated /\ arg.gate \in XmonGates /\ AdjacentOnDevice(arg))
          => result = "OK"
    /\ (/\ call = "validate_moved"
        /\ prev.arg.gate \in XmonGates
        /\ AdjacentOnDevice(prev.arg)
        /\ ApartOnDevice(arg))
          => /\ prev.result = "OK"
             /\ arg.gate # "MeasurementGate" => result = "Non-local interaction"
             /\ arg.gate = "MeasurementGate" => result = "OK"

\* A two-qubit interaction that validated, its second operand moved apart.
C4_Witness ==
    /\ call = "validate_moved"
    /\ arg.gate = "CZPowGate"
    /\ AdjacentOnDevice(prev.arg)
    /\ prev.result = "OK"
    /\ ApartOnDevice(arg)
    /\ arg.qubits[1] = prev.arg.qubits[1]
    /\ arg.qubits[1] # arg.qubits[2]
    /\ result = "Non-local interaction"

-----------------------------------------------------------------------------
(* Properties of the conflict detector, checked under SpecMoment.           *)

IsCZ(o) == o.gate = "CZPowGate"

\* Some operand of a is adjacent on the grid to some operand of b.
Crosstalk(a, b) ==
    \E p \in Range(a.qubits), q \in Range(b.qubits) : OneStep(p, q)

\* The moment holds two distinct two-qubit interactions in crosstalk.
HasAdjacentCZs(m) ==
    \E i, j \in 1..Len(m) :
        i # j /\ IsCZ(m[i]) /\ IsCZ(m[j]) /\ Crosstalk(m[i], m[j])

AllValid(m) == \A i \in 1..Len(m) : validate_operation(qubits, m[i]) = "OK"

Permutations(n) ==
    {f \in [1..n -> 1..n] : \A i, j \in 1..n : f[i] = f[j] => i = j}

Permuted(m, f) == [i \in 1..Len(m) |-> m[f[i]]]

\* C1: a moment of valid operations on disjoint qubits fails validate_moment,
\* with the adjacent-interaction error, iff it holds two distinct two-qubit
\* interactions with an operand of one adjacent to an operand of the other;
\* otherwise it validates; the moment's order does not matter.
C1_AdjacentCZsFail ==
    (call = "validate_moment" /\ AllValid(moment)) =>
        /\ HasAdjacentCZs(moment) => result = "Adjacent Exp11 operations"
        /\ ~HasAdjacentCZs(moment) => result = "OK"
        /\ \A f \in Permutations(Len(moment)) :
              validate_moment(qubits, Permuted(moment, f)) = result

\* Two two-qubit interactions, not in crosstalk, in a moment that validated.
C1_Witness ==
    /\ call = "validate_moment"
    /\ Len(moment) = 2
    /\ IsCZ(moment[1]) /\ IsCZ(moment[2])
    /\ AllValid(moment)
    /\ ~Crosstalk(moment[1], moment[2])
    /\ result = "OK"

C10_InsertAgreesWithValidate ==
    /\ [](  (/\ call = "can_add_operation_into_moment"
             /\ AllValid(moment) /\ ~HasAdjacentCZs(moment)
             /\ validate_operation(qubits, arg) = "OK")
          => /\ result \in {"True", "False"}
             /\ result = "True" <=>
                  /\ Range(arg.qubits) \cap
                        UNION {Range(moment[i].qubits) : i \in 1..Len(moment)} = {}
                  /\ AllValid(Append(moment, arg))
                  /\ ~HasAdjacentCZs(Append(moment, arg)))
    /\ [][call' = "can_add_operation_into_moment" => moment' = moment]_vars

\* A two-qubit interaction refused for crosstalk alone: it shares no qubit
\* with the valid moment.
C10_Witness ==
    /\ call = "can_add_operation_into_moment"
    /\ Len(moment) = 2
    /\ AllValid(moment) /\ ~HasAdjacentCZs(moment)
    /\ IsCZ(arg)
    /\ validate_operation(qubits, arg) = "OK"
    /\ ~operates_on(moment, arg.qubits)
    /\ result = "False"

-----------------------------------------------------------------------------
(* Properties of validate_scheduled_operation, checked under SpecSchedule.  *)

\* The instants 0..MaxTime+MaxDuration at which a scheduled operation is active.
ActiveAt(a) == {t \in 0..(MaxTime + MaxDuration) : a.time <= t /\ t < a.time + a.duration}

\* Another scheduled operation, active at an instant at which s is, whose gate
\* can interact and which has an operand adjacent to an operand of s.
Disturbs(other, s) ==
    /\ other # s
    /\ ActiveAt(other) \cap ActiveAt(s) # {}
    /\ other.operation.gate \notin NonInteractingGates
    /\ Crosstalk(s.operation, other.operation)

\* C6: for a scheduled operation s whose operation validates: if s is a
\* two-qubit interaction, validate_scheduled_operation fails, with the
\* adjacent-interaction error, exactly when another scheduled operation that
\* overlaps s in time has a gate that can interact and an operand adjacent to
\* an operand of s; operations that do not overlap s never make it fail; if s
\* is no two-qubit interaction it validates.
C6_OverlappingNeighboursFail ==
    (/\ call = "validate_scheduled_operation"
     /\ validate_operation(qubits, arg.operation) = "OK") =>
        /\ result \in {"OK", "Adjacent Exp11 operations"}
        /\ IsCZ(arg.operation) =>
              (result = "Adjacent Exp11 operations"
                  <=> \E j \in 1..Len(moment) : Disturbs(moment[j], arg))
        /\ ~IsCZ(arg.operation) => result = "OK"

\* A two-qubit interaction that validates beside an adjacent two-qubit
\* interaction scheduled at another time.
C6_Witness ==
    /\ call = "validate_scheduled_operation"
    /\ IsCZ(arg.operation)
    /\ \E j \in 1..Len(moment) :
          /\ IsCZ(moment[j].operation)
          /\ Crosstalk(arg.operation, moment[j].operation)
          /\ ActiveAt(moment[j]) \cap ActiveAt(arg) = {}
    /\ result = "OK"

-----------------------------------------------------------------------------
(* Properties of the measurement keys, checked under SpecKeys.              *)

\* The operations of a circuit or of a schedule, in the order of the scan.
OperationsOf(kind, c) ==
    IF kind = "circuit" THEN all_operations(c)
    ELSE [i \in 1..Len(c) |-> c[i].operation]

\* The pairs of measurements with the same key.
SameKeyPairs(ops) ==
    {pr \in (1..Len(ops)) \X (1..Len(ops)) :
        /\ pr[1] < pr[2]
        /\ ops[pr[1]].gate = "MeasurementGate"
        /\ ops[pr[2]].gate = "MeasurementGate"
        /\ ops[pr[1]].key = ops[pr[2]].key}

\* The first place, in the order of the scan, that repeats an earlier key.
FirstRepeat(ops) ==
    CHOOSE j \in 1..Len(ops) :
        /\ \E pr \in SameKeyPairs(ops) : pr[2] = j
        /\ \A pr \in SameKeyPairs(ops) : pr[2] >= j

\* Nothing but the measurement keys can make the validation fail: the moments
\* of a circuit validate; the scheduled operations of a schedule validate.
ValidButForKeys(kind, c) ==
    IF kind = "circuit"
    THEN \A i \in 1..Len(c) :
            /\ \A j \in 1..Len(c[i]) : validate_operation(qubits, c[i][j]) = "OK"
            /\ ~HasAdjacentCZs(c[i])
    ELSE \A i \in 1..Len(c) :
            /\ validate_operation(qubits, c[i].operation) = "OK"
            /\ ~(IsCZ(c[i].operation) /\ \E j \in 1..Len(c) : Disturbs(c[j], c[i]))

\* The place of the scan that the caller's edit changed.
EditedPlace(kind, c, at) ==
    IF kind = "circuit"
    THEN Len(all_operations(SubSeq(c, 1, at[1] - 1))) + at[2]
    ELSE at[1]

KeysValidated ==
    call \in {"validate_circuit", "validate_schedule",
              "validate_circuit_changed", "validate_schedule_changed"}

\* C5: a circuit or a schedule, valid but for its measurement keys, with two
\* measurements of the same key fails validation with the repeated-key error,
\* naming the first key repeated in the order of the operations (a schedule
\* fails so whatever else is wrong with it); operations that are no
\* measurements contribute no key; without two such measurements it validates,
\* as it does when exactly two measurements share a key and either is given a
\* key no other measurement has.
C5_RepeatedKeyFails ==
    KeysValidated =>
        LET ops == OperationsOf(arg, moment) IN
        /\ (SameKeyPairs(ops) # {} /\ (arg = "circuit" => ValidButForKeys(arg, moment)))
              => result = KeyRepeated(ops[FirstRepeat(ops)].key)
        /\ (SameKeyPairs(ops) = {} /\ ValidButForKeys(arg, moment))
              => result = Outcome("OK")
        /\ (/\ call \in {"validate_circuit_changed", "validate_schedule_changed"}
            /\ ValidButForKeys(arg, prev.arg)
            /\ Cardinality(SameKeyPairs(OperationsOf(arg, prev.arg))) = 1
            /\ \E pr \in SameKeyPairs(OperationsOf(arg, prev.arg)) :
                  EditedPlace(arg, prev.arg, prev.at) \in {pr[1], pr[2]}
            /\ \A i \in 1..Len(ops) :
                  (i # EditedPlace(arg, prev.arg, prev.at) /\ is_measurement(ops[i]))
                     => ops[i].key # ops[EditedPlace(arg, prev.arg, prev.at)].key)
              => /\ prev.result.error = "Measurement key repeated"
                 /\ result = Outcome("OK")

\* A circuit with a rotation between two measurements of one key, which failed
\* on that key, and validates with the key of the first measurement changed.
C5_Witness ==
    /\ call = "validate_circuit_changed"
    /\ Len(all_operations(prev.arg)) = 3
    /\ all_operations(prev.arg)[2].gate = "XPowGate"
    /\ SameKeyPairs(all_operations(prev.arg)) = {<<1, 3>>}
    /\ prev.result = KeyRepeated(all_operations(prev.arg)[1].key)
    /\ EditedPlace(arg, prev.arg, prev.at) = 1
    /\ result = Outcome("OK")

-----------------------------------------------------------------------------
(* Properties of get_acquaintance_size, checked under SpecAcquaintance.     *)

\* What the fallthrough gives: the gate's sizer applied to the number of
\* operands, 0 without a sizer.
Fallthrough(o) ==
    IF o.sizer = "None" THEN 0
    ELSE IF o.sizer = "count" THEN o.n_qubits ELSE 1

\* The largest sum of two part lengths at distinct places.
TwoLargest(pl) ==
    CHOOSE v \in 0..(2 * MaxPartLen) :
        /\ \E i, j \in 1..Len(pl) : i # j /\ v = pl[i] + pl[j]
        /\ \A i, j \in 1..Len(pl) : i # j => v >= pl[i] + pl[j]

\* C9: the acquaintance size of a gate operation, by gate type: the number of
\* operands for an acquaintance opportunity; 2 for a bipartite swap network;
\* the gate's declared size for a shift swap network; for a swap network the
\* sum of its two largest part lengths when its target is unset, its target
\* when target - 1 is one of its part lengths; and for every other case the
\* gate's sizer applied to the number of operands, 0 when the gate has no
\* sizer.  An operation without a gate gives 0.
C9_SizeByGateType ==
    (call = "get_acquaintance_size(object)" /\ arg.type \in {"Operation", "GateOperation"}) =>
        /\ result.error = "none"
        /\ arg.type = "Operation" => result.value = 0
        /\ arg.type = "GateOperation" =>
            /\ arg.gate = "AcquaintanceOpportunityGate" => result.value = arg.n_qubits
            /\ arg.gate = "BipartiteSwapNetworkGate" => result.value = 2
            /\ arg.gate = "ShiftSwapNetworkGate" => result.value = arg.declared
            /\ (arg.gate = "SwapNetworkGate" /\ ~arg.has_target)
                  => result.value = TwoLargest(arg.part_lens)
            /\ (/\ arg.gate = "SwapNetworkGate" /\ arg.has_target
                /\ \E i \in 1..Len(arg.part_lens) : arg.part_lens[i] = arg.target - 1)
                  => result.value = arg.target
            /\ (/\ arg.gate = "SwapNetworkGate" /\ arg.has_target
                /\ \A i \in 1..Len(arg.part_lens) : arg.part_lens[i] # arg.target - 1)
                  => result.value = Fallthrough(arg)
            /\ arg.gate = "Gate" => result.value = Fallthrough(arg)

\* A swap network whose target is one of its part lengths, though target - 1
\* is none, and which has no sizer: its size is 0.
C9_Witness ==
    /\ call = "get_acquaintance_size(object)"
    /\ arg.gate = "SwapNetworkGate"
    /\ arg.has_target
    /\ arg.target \in Range(arg.part_lens)
    /\ arg.target - 1 \notin Range(arg.part_lens)
    /\ arg.sizer = "None"
    /\ result = Value(0)

\* The acquaintance sizes of the operations of a circuit.
SizesOf(circuit) ==
    {operation_acquaintance_size(circuit.ops[i]) : i \in 1..Len(circuit.ops)}

\* C7: the acquaintance size of a circuit is a type error when the circuit's
\* device is no acquaintance device; otherwise it is the largest acquaintance
\* size of the circuit's operations, and 0 for a circuit without operations.
C7_CircuitSizeIsMaximum ==
    call = "get_acquaintance_size(circuit)" =>
        /\ moment.device # "AcquaintanceDevice"
              => result = TypeError("not is_acquaintance_strategy(circuit)")
        /\ moment.device = "AcquaintanceDevice" =>
              /\ result.error = "none"
              /\ moment.ops = <<>> => result.value = 0
              /\ moment.ops # <<>> =>
                    /\ result.value \in SizesOf(moment)
                    /\ \A v \in SizesOf(moment) : v <= result.value

\* An acquaintance strategy of three operations, the largest size in the
\* middle.
C7_Witness ==
    /\ call = "get_acquaintance_size(circuit)"
    /\ moment.device = "AcquaintanceDevice"
    /\ Len(moment.ops) = 3
    /\ operation_acquaintance_size(moment.ops[2]) > operation_acquaintance_size(moment.ops[1])
    /\ operation_acquaintance_size(moment.ops[2]) > operation_acquaintance_size(moment.ops[3])
    /\ result = Value(operation_acquaintance_size(moment.ops[2]))

====
